---- MODULE Spec2Model ----
(***************************************************************************)
(* Model of skorch/callbacks/scoring.py: the inference cache guard         *)
(* (cache_net_infer), ScoringBase, BatchScoring and EpochScoring, driven   *)
(* by the lifecycle events of the training loop.  The run history and the  *)
(* training loop are collaborators outside scoring.py; they are modelled   *)
(* as far as the callbacks read and write them.                            *)
(***************************************************************************)
EXTENDS Integers, Sequences, FiniteSets, TLC

VARIABLES
    cfg,                \* constructor arguments of every attached callback
    best_score_,        \* self.best_score_ per callback
    y_trues_,           \* self.y_trues_ per callback (EpochScoring)
    y_preds_,           \* self.y_preds_ per callback (EpochScoring)
    y_is_placeholder_,  \* self.y_is_placeholder_ per callback (EpochScoring)
    history,            \* net.history: one dict per epoch (epoch-level keys)
    batches,            \* net.history[-1]['batches']: one dict per batch
    netDict,            \* net.__dict__ restricted to the key 'infer'
    run,                \* the run: max_epochs, the batches per epoch, and
                        \* whether the loop delivers the events in order
    stage,              \* where each callback is in the epoch's lifecycle
    ev,                 \* the last lifecycle call and the error it raised
    scored,             \* the scorer invocation made by the last call
    arrived,            \* per EpochScoring callback, the (y, y_pred) of the
                        \* on_batch_end calls of its phase it has received
                        \* since its last on_epoch_begin (kept in the runs
                        \* that deliver the events in lifecycle order)
    cleared             \* per EpochScoring callback, whether on_train_end
                        \* was called since its last on_epoch_begin (kept
                        \* in the same runs)

vars == <<cfg, best_score_, y_trues_, y_preds_, y_is_placeholder_,
          history, batches, netDict, run, stage, ev, scored, arrived,
          cleared>>

(***************************************************************************)
(* Bounds of the model.                                                    *)
(***************************************************************************)
MaxEpochs == 2
MaxBatches == 2
MaxCalls == 3
MaxScore == 2
MaxSize == 2

(***************************************************************************)
(* Python values.  None and an attribute that was never assigned are the   *)
(* record None; any other optional value v is Some(v).                     *)
(***************************************************************************)
None == [none |-> TRUE]
Some(v) == [none |-> FALSE, v |-> v]

NoError == "none"

\* The batches the loop can hand over: the raw target y (the tensor of the
\* labels of the batch) and the prediction y_pred of the training step.
Batches ==
    {[y |-> <<"a">>, y_pred |-> "p1"], [y |-> <<"b", "c">>, y_pred |-> "p2"]}
\* What real inference returns when net.infer is not overridden.
RealInference == "fresh"
\* Arguments a scorer passes to net.infer.
InferArgs == {"Xa", "Xb"}

Sizes == 1..MaxSize
\* Scores are exact rationals <<numerator, denominator>>.
ScoreVals == {<<s, 1>> : s \in 1..MaxScore}

RECURSIVE GCD(_, _)
GCD(a, b) == IF b = 0 THEN a ELSE GCD(b, a % b)

Rat(n, d) == LET g == GCD(n, d) IN <<n \div g, d \div g>>

\* np.inf, -np.inf
Inf == <<1, 0>>
NegInf == <<-1, 0>>

\* a < b on rationals with a non-negative denominator, infinities included
Lt(a, b) == a[1] * b[2] < b[1] * a[2]

\* Sequences over S of length at most n.
SeqsUpTo(S, n) == UNION {[1..k -> S] : k \in 0..n}

\* dict[key] = val
DictSet(d, key, val) ==
    [k \in DOMAIN d \cup {key} |-> IF k = key THEN val ELSE d[k]]

EmptyDict == [k \in {} |-> 0]

(***************************************************************************)
(* Datasets handed to on_epoch_begin / on_epoch_end.                       *)
(***************************************************************************)
DsXY == [skorch |-> TRUE, X |-> Some("X"), y |-> Some(<<"a", "b", "c">>)]
DsXonly == [skorch |-> TRUE, X |-> Some("X"), y |-> None]
DsNoX == [skorch |-> TRUE, X |-> None, y |-> None]
DsCustom == [skorch |-> FALSE, X |-> None, y |-> None]
Datasets == {None, DsXY, DsXonly, DsNoX, DsCustom}

\* target_extractor (to_numpy by default): tensor -> ndarray of its labels
target_extractor(y) == [np |-> y]

RECURSIVE Flatten(_)
Flatten(arrays) ==
    IF arrays = <<>> THEN <<>> ELSE Head(arrays).np \o Flatten(Tail(arrays))

\* np.concatenate(list of ndarrays)
concatenate(arrays) == [np |-> Flatten(arrays)]

(***************************************************************************)
(* cache_net_infer                                                         *)
(***************************************************************************)
\* Mutant: the override hands out the first prediction without advancing.
infer_override_stuck(rest, a) ==
    IF rest = <<>>
    THEN [raised |-> "StopIteration", out |-> <<>>, rest |-> rest]
    ELSE [raised |-> NoError, out |-> <<Head(rest)>>, rest |-> rest]

\* net.infer = lambda *a, **kw: next(y_preds); rest is what the iterator
\* has not handed out yet.  The arguments a are ignored.
infer_override(rest, a) ==
    IF rest = <<>>
    THEN [raised |-> "StopIteration", out |-> <<>>, rest |-> rest]
    ELSE [raised |-> NoError, out |-> <<Head(rest)>>, rest |-> Tail(rest)]

\* The bound method NeuralNet.infer: real inference.
infer_original(rest, a) ==
    [raised |-> NoError, out |-> <<RealInference>>, rest |-> rest]

\* What net.infer resolves to: the instance attribute precedes the method.
net_infer(dict, rest, a) ==
    IF "infer" \in dict THEN infer_override(rest, a)
    ELSE infer_original(rest, a)

\* Mutant: the override is installed whatever use_caching says.
guard_enter_always(dict, use_caching) == dict \cup {"infer"}

\* Entering the context: lines 25-29.
guard_enter(dict, use_caching) ==
    IF ~use_caching THEN dict ELSE dict \cup {"infer"}

\* Mutant: the attribute is never deleted.
guard_exit_keep(dict, use_caching, raised) == dict

\* Mutant: no try/finally, the attribute is deleted on normal exit only.
guard_exit_no_finally(dict, use_caching, raised) ==
    IF ~use_caching \/ raised # NoError THEN dict ELSE dict \ {"infer"}

\* Leaving the context with the error the body raised (or NoError): the
\* finally clause deletes the attribute on every path.
guard_exit(dict, use_caching, raised) ==
    IF ~use_caching THEN dict ELSE dict \ {"infer"}

(***************************************************************************)
(* The scorer is opaque: it calls net.infer once per element of its args   *)
(* and then returns a score or raises.                                     *)
(***************************************************************************)
ScorerErrors == {"ValueError", "KeyError"}
\* The calls a scorer makes: k invocations with alternating arguments.
ScorerCalls ==
    {[i \in 1..k |-> IF i % 2 = 1 THEN "Xa" ELSE "Xb"] : k \in 0..MaxCalls}
ScorerBehaviours ==
    {[args |-> a, raises |-> NoError, score |-> s] :
        a \in ScorerCalls, s \in ScoreVals}
    \cup
    {[args |-> a, raises |-> e, score |-> <<0, 1>>] :
        a \in ScorerCalls, e \in ScorerErrors}
\* What happens inside a handler that extracts targets, scores and records:
\* target_extractor raises, or the scorer behaves as sc, or the scorer
\* returns and history.record_batch fails on a lookup (rec).
Environments ==
    {[tx_raises |-> FALSE, sc |-> sc, rec |-> NoError] :
        sc \in ScorerBehaviours}
    \cup {[tx_raises |-> TRUE, rec |-> NoError,
            sc |-> [args |-> <<>>, raises |-> NoError, score |-> <<1, 1>>]]}
    \cup {[tx_raises |-> FALSE, rec |-> "KeyError",
            sc |-> [args |-> <<>>, raises |-> NoError, score |-> <<1, 1>>]]}

RECURSIVE InferCalls(_, _, _)
InferCalls(dict, rest, args) ==
    IF args = <<>> THEN [seen |-> <<>>, raised |-> NoError]
    ELSE LET r == net_infer(dict, rest, Head(args)) IN
         IF r.raised # NoError THEN [seen |-> <<>>, raised |-> r.raised]
         ELSE LET t == InferCalls(dict, r.rest, Tail(args)) IN
              [seen |-> r.out \o t.seen, raised |-> t.raised]

\* ScoringBase._scoring(net, X_test, y_test); y_preds is the iterator the
\* guard holds (unused when the override is not installed).
scoring(dict, y_preds, sc) ==
    LET r == InferCalls(dict, y_preds, sc.args) IN
    [raised |-> IF r.raised # NoError THEN r.raised ELSE sc.raises,
     score |-> sc.score,
     seen |-> r.seen]

\* Mutant: the two comparisons are exchanged.
is_best_score_swapped(c, best, current_score) ==
    IF c.lower_is_better = None THEN None
    ELSE IF c.lower_is_better.v THEN Some(Lt(best, current_score))
    ELSE Some(Lt(current_score, best))

\* Mutant: a disabled comparison is reported as "not the best".
is_best_score_no_none(c, best, current_score) ==
    IF c.lower_is_better # None /\ c.lower_is_better.v
    THEN Some(Lt(current_score, best))
    ELSE IF c.lower_is_better = None THEN Some(FALSE)
    ELSE Some(Lt(best, current_score))

\* Mutant: an equal score counts as an improvement.
is_best_score_nonstrict(c, best, current_score) ==
    IF c.lower_is_better = None THEN None
    ELSE IF c.lower_is_better.v THEN Some(~Lt(best, current_score))
    ELSE Some(~Lt(current_score, best))

\* ScoringBase._is_best_score
is_best_score(c, best, current_score) ==
    IF c.lower_is_better = None THEN None
    ELSE IF c.lower_is_better.v THEN Some(Lt(current_score, best))
    ELSE Some(Lt(best, current_score))

\* Mutant: every instance gets the default name.
get_name_default(c) == "score"

\* ScoringBase._get_name
get_name(c) ==
    IF c.name # None THEN c.name.v
    ELSE IF c.scoring = None THEN "score"
    ELSE c.scoring.v

\* ScoringBase.initialize: the initial running best
initial_best(c) ==
    IF c.lower_is_better # None /\ c.lower_is_better.v THEN Inf ELSE NegInf

(***************************************************************************)
(* The run history (skorch.history.History), as far as scoring.py uses it. *)
(***************************************************************************)
\* history.new_epoch(): a fresh epoch dict with an empty 'batches' list
new_epoch(h) == Append(h, EmptyDict)

\* history.record(attr, value): self[-1][attr] = value
record(h, attr, value) ==
    [h EXCEPT ![Len(h)] = DictSet(h[Len(h)], attr, value)]

\* history.record_batch(attr, value): self[-1]['batches'][-1][attr] = value
record_batch(bs, attr, value) ==
    [bs EXCEPT ![Len(bs)] = DictSet(bs[Len(bs)], attr, value)]

\* history[-1, 'batches', :, keys]: the rows of the current epoch that carry
\* every requested key; a KeyError when there is none.
batch_rows(bs, keys) == SelectSeq(bs, LAMBDA row : keys \subseteq DOMAIN row)

(***************************************************************************)
(* Callback instances.                                                     *)
(***************************************************************************)
Cbs == DOMAIN cfg
name_(cb) == get_name(cfg[cb])
best_key(cb) == name_(cb) \o "_best"
initialized(cb) == best_score_[cb] # None
IsEpochScoring(cb) == cfg[cb].kind = "EpochScoring"
IsBatchScoring(cb) == cfg[cb].kind = "BatchScoring"

\* A lifecycle call: the handler, the callback, the arguments, the error
\* that left the handler, and how many predictions the callback had cached
\* when the call began.
Event(op, cb, args, raised, cached) ==
    [op |-> op, cb |-> cb, args |-> args, raised |-> raised,
     cached |-> cached]

NoArgs == <<>>
\* No call is in progress: the loop is between two lifecycle calls.
Idle == Event("idle", "net", NoArgs, NoError, 0)

\* What the scorer was called with and what net.infer returned to it:
\* y_test, the replay sequence of the guard, whether net.infer was the
\* override, how often the scorer invoked net.infer and the values these
\* invocations returned, and the error that left the scoring call.
Scored(y_test, y_pred, dict, sc, r) ==
    Some([y_test |-> y_test, y_pred |-> y_pred,
          overridden |-> "infer" \in dict, calls |-> Len(sc.args),
          seen |-> r.seen, error |-> r.raised])

\* The lifecycle order of the loop, kept when the run is ordered: an epoch
\* is new, then begun (on_epoch_begin), then ended (on_epoch_end); while it
\* is begun, a BatchScoring callback is at stage batch from the creation of
\* a batch row to its on_batch_end.
Allowed(cb, stages) == ~run.ordered \/ stage[cb] \in stages
Moved(cb, s) == IF run.ordered THEN [stage EXCEPT ![cb] = s] ELSE stage

\* Mutant: the list is left as it is.
initialize_cache_kept(lists, cb) == lists

\* Mutant: one list shared by all instances, as a class attribute would be.
initialize_cache_shared(lists, cb) == [c \in DOMAIN lists |-> <<>>]

\* EpochScoring._initialize_cache applied to one of the two lists
initialize_cache(lists, cb) == [lists EXCEPT ![cb] = <<>>]

\* ScoringBase.initialize / EpochScoring.initialize
Initialize(cb) ==
    /\ ev = Idle
    /\ ~initialized(cb)
    /\ best_score_' = [best_score_ EXCEPT ![cb] = Some(initial_best(cfg[cb]))]
    /\ y_trues_' = initialize_cache(y_trues_, cb)
    /\ y_preds_' = initialize_cache(y_preds_, cb)
    /\ ev' = Event("initialize", cb, NoArgs, NoError, 0)
    /\ scored' = None
    /\ UNCHANGED <<cfg, arrived, cleared, run, stage, y_is_placeholder_,
                   history, batches, netDict>>

(***************************************************************************)
(* The training loop, as far as it touches the history.                    *)
(***************************************************************************)
NewEpoch ==
    /\ ev = Idle
    /\ Len(history) < run.max_epochs
    /\ run.ordered => \A cb \in Cbs : initialized(cb)
    /\ history' = new_epoch(history)
    /\ batches' = <<>>
    /\ stage' = IF run.ordered
                THEN [cb \in Cbs |-> IF IsEpochScoring(cb) THEN "new"
                                     ELSE "begun"]
                ELSE stage
    /\ ev' = Event("new_epoch", "net", NoArgs, NoError, 0)
    /\ scored' = None
    /\ UNCHANGED <<cfg, arrived, cleared, run, best_score_, y_trues_, y_preds_,
                   y_is_placeholder_, netDict>>

bs_key(training) ==
    IF training THEN "train_batch_size" ELSE "valid_batch_size"

\* on_batch_begin (history.new_batch()) and the step's record of its size.
\* Only BatchScoring reads or writes batch rows, so the rows are kept when
\* such a callback is attached.
NewBatch(training, size) ==
    /\ ev = Idle
    /\ history # <<>>
    /\ \E cb \in Cbs : IsBatchScoring(cb)
    /\ Len(batches) < run.max_batches
    /\ run.ordered =>
          \A cb \in Cbs : IsBatchScoring(cb) => stage[cb] = "begun"
    /\ stage' = IF run.ordered
                THEN [cb \in Cbs |-> IF IsBatchScoring(cb) THEN "batch"
                                     ELSE stage[cb]]
                ELSE stage
    /\ batches' = Append(batches, DictSet(EmptyDict, bs_key(training), size))
    /\ ev' = Event("new_batch", "net", [training |-> training], NoError, 0)
    /\ scored' = None
    /\ UNCHANGED <<cfg, arrived, cleared, run, best_score_, y_trues_, y_preds_,
                   y_is_placeholder_, history, netDict>>

\* The call returns (or its error propagates) and the loop goes on.
Return ==
    /\ ev # Idle
    /\ ev' = Idle
    /\ scored' = None
    /\ UNCHANGED <<cfg, arrived, cleared, run, stage, best_score_, y_trues_,
                   y_preds_, y_is_placeholder_, history, batches, netDict>>

(***************************************************************************)
(* EpochScoring                                                            *)
(***************************************************************************)
\* isinstance(ds, Dataset) and ds.y is None
placeholder_of(ds) == ds # None /\ ds.skorch /\ ds.y = None

\* dataset_train if self.on_train else dataset_valid
phase_dataset(c, dataset_train, dataset_valid) ==
    IF c.on_train THEN dataset_train ELSE dataset_valid

EpochOnEpochBegin(cb, dataset_train, dataset_valid) ==
    LET ds == phase_dataset(cfg[cb], dataset_train, dataset_valid) IN
    /\ ev = Idle
    /\ IsEpochScoring(cb) /\ initialized(cb)
    /\ Allowed(cb, {"new"})
    /\ stage' = Moved(cb, "begun")
    /\ y_trues_' = initialize_cache(y_trues_, cb)
    /\ y_preds_' = initialize_cache(y_preds_, cb)
    /\ y_is_placeholder_' =
          [y_is_placeholder_ EXCEPT ![cb] = Some(placeholder_of(ds))]
    /\ ev' = Event("on_epoch_begin", cb,
                   [dataset_train |-> dataset_train,
                    dataset_valid |-> dataset_valid],
                   NoError, Len(y_preds_[cb]))
    /\ scored' = None
    /\ arrived' = [arrived EXCEPT ![cb] = <<>>]
    /\ cleared' = [cleared EXCEPT ![cb] = FALSE]
    /\ UNCHANGED <<cfg, run, best_score_, history, batches, netDict>>

\* Mutant: use_caching is not looked at.
epoch_batch_skipped_phase_only(c, training) == training # c.on_train

\* Mutant: the phase of the batch is not looked at.
epoch_batch_skipped_any_phase(c, training) == ~c.use_caching

\* line 274: the early return of EpochScoring.on_batch_end
epoch_batch_skipped(c, training) == ~c.use_caching \/ training # c.on_train

\* Mutant: the target is never collected.
collect_target_never(trues, placeholder, y) == trues

\* Mutant: the target is collected whether or not it is a placeholder.
collect_target_always(trues, placeholder, y) == Append(trues, y)

\* lines 284-285: the target is collected unless it is a placeholder
collect_target(trues, placeholder, y) ==
    IF ~placeholder THEN Append(trues, y) ELSE trues

\* Mutant: the newest prediction is put in front.
collect_pred_front(preds, y_pred) == <<y_pred>> \o preds

\* line 286: self.y_preds_.append(y_pred)
collect_pred(preds, y_pred) == Append(preds, y_pred)

EpochOnBatchEnd(cb, y, y_pred, training) ==
    LET call(raised) == Event("on_batch_end", cb, [training |-> training],
                              raised, Len(y_preds_[cb]))
    IN
    /\ ev = Idle
    /\ IsEpochScoring(cb) /\ initialized(cb)
    /\ Allowed(cb, {"begun"})
    /\ scored' = None
    /\ (run.ordered /\ training = cfg[cb].on_train)
          => Len(arrived[cb]) < run.max_batches
    /\ arrived' = IF run.ordered /\ training = cfg[cb].on_train
                  THEN [arrived EXCEPT
                           ![cb] = Append(@, [y |-> y, y_pred |-> y_pred])]
                  ELSE arrived
    /\ UNCHANGED <<cfg, cleared, run, stage, best_score_, y_is_placeholder_,
                   history, batches, netDict>>
    /\ IF epoch_batch_skipped(cfg[cb], training)
       THEN /\ ev' = call(NoError)
            /\ UNCHANGED <<y_trues_, y_preds_>>
       ELSE IF y_is_placeholder_[cb] = None
       THEN \* self.y_is_placeholder_ was never assigned
            /\ ev' = call("AttributeError")
            /\ UNCHANGED <<y_trues_, y_preds_>>
       ELSE /\ Len(y_preds_[cb]) < run.max_batches
            /\ y_trues_' = [y_trues_ EXCEPT ![cb] =
                               collect_target(@, y_is_placeholder_[cb].v, y)]
            /\ y_preds_' = [y_preds_ EXCEPT ![cb] = collect_pred(@, y_pred)]
            /\ ev' = call(NoError)

\* lines 296-314 of EpochScoring.on_epoch_end: X_test, y_test and y_pred;
\* tx_raises tells whether target_extractor raises when it is applied.
epoch_inputs(c, trues, preds, dataset, tx_raises) ==
    IF c.use_caching
    THEN [raised |-> IF trues # <<>> /\ tx_raises THEN "ExtractError"
                     ELSE NoError,
          X_test |-> dataset,
          y_test |-> IF trues # <<>>
                     THEN Some(concatenate(
                              [i \in 1..Len(trues) |->
                                  target_extractor(trues[i])]))
                     ELSE None,
          y_pred |-> preds]
    ELSE LET sk == dataset # None /\ dataset.skorch
             y0 == IF sk THEN dataset.y ELSE None
         IN [raised |-> IF y0 # None /\ tx_raises THEN "ExtractError"
                        ELSE NoError,
             X_test |-> IF sk THEN dataset.X ELSE dataset,
             y_test |-> IF y0 # None THEN Some(target_extractor(y0.v))
                        ELSE None,
             y_pred |-> <<>>]

\* Mutant: the scorer runs whatever X is.
x_absent_never(X_test) == FALSE

\* lines 316-317: if X_test is None: return
x_absent(X_test) == X_test = None

EpochOnEpochEnd(cb, dataset_train, dataset_valid, sc, tx_raises) ==
    LET c == cfg[cb]
        dataset == phase_dataset(c, dataset_train, dataset_valid)
        in == epoch_inputs(c, y_trues_[cb], y_preds_[cb], dataset, tx_raises)
        entered == guard_enter(netDict, c.use_caching)
        r == scoring(entered, in.y_pred, sc)
        is_best == is_best_score(c, best_score_[cb].v, r.score)
        h1 == record(history, name_(cb), r.score)
        call(raised) == Event("on_epoch_end", cb,
                              [dataset_train |-> dataset_train,
                               dataset_valid |-> dataset_valid],
                              raised, Len(y_preds_[cb]))
    IN
    /\ ev = Idle
    /\ IsEpochScoring(cb) /\ initialized(cb)
    /\ history # <<>>
    /\ Allowed(cb, {"begun"})
    /\ stage' = Moved(cb, "ended")
    /\ UNCHANGED <<cfg, arrived, cleared, run, y_trues_, y_preds_,
                   y_is_placeholder_, batches>>
    /\ IF in.raised # NoError
       THEN /\ ev' = call(in.raised)
            /\ scored' = None
            /\ UNCHANGED <<best_score_, history, netDict>>
       ELSE IF x_absent(in.X_test)
       THEN /\ ev' = call(NoError)
            /\ scored' = None
            /\ UNCHANGED <<best_score_, history, netDict>>
       ELSE /\ scored' = Scored(in.y_test, in.y_pred, entered, sc, r)
            /\ ev' = call(r.raised)
            /\ netDict' = guard_exit(entered, c.use_caching, r.raised)
            /\ IF r.raised # NoError
               THEN UNCHANGED <<best_score_, history>>
               ELSE IF is_best = None
               THEN /\ history' = h1
                    /\ UNCHANGED best_score_
               ELSE /\ history' = record(h1, best_key(cb), is_best.v)
                    /\ best_score_' = IF is_best.v
                                      THEN [best_score_ EXCEPT
                                               ![cb] = Some(r.score)]
                                      ELSE best_score_

EpochOnTrainEnd(cb) ==
    /\ ev = Idle
    /\ IsEpochScoring(cb) /\ initialized(cb)
    /\ Allowed(cb, {"init", "ended"})
    /\ cleared' = IF run.ordered THEN [cleared EXCEPT ![cb] = TRUE]
                  ELSE cleared
    /\ y_trues_' = initialize_cache(y_trues_, cb)
    /\ y_preds_' = initialize_cache(y_preds_, cb)
    /\ ev' = Event("on_train_end", cb, NoArgs, NoError, Len(y_preds_[cb]))
    /\ scored' = None
    /\ UNCHANGED <<cfg, arrived, run, stage, best_score_, y_is_placeholder_,
                   history, batches, netDict>>

(***************************************************************************)
(* BatchScoring                                                            *)
(***************************************************************************)
\* line 145: the early return of BatchScoring.on_batch_end
batch_skipped(c, training) == training # c.on_train

\* Mutant: a bare except, every error of the scoring call is swallowed.
batch_swallowed_all(raised) == raised # NoError

\* the except clause of lines 151-155: the errors it swallows
batch_swallowed(raised) == raised = "KeyError"

BatchOnBatchEnd(cb, y, y_pred, training, sc, tx_raises, rec_raises) ==
    LET c == cfg[cb]
        y_preds == <<y_pred>>
        entered == guard_enter(netDict, c.use_caching)
        r == scoring(entered, y_preds, sc)
        \* the error raised inside the try block, by either of its two calls
        tried == IF r.raised # NoError THEN r.raised ELSE rec_raises
        raised == IF tx_raises THEN "ExtractError"
                  ELSE IF batch_swallowed(tried) THEN NoError
                  ELSE tried
        call(e) == Event("on_batch_end", cb,
                         [training |-> training, record_raises |-> rec_raises],
                         e, 0)
    IN
    /\ ev = Idle
    /\ IsBatchScoring(cb) /\ initialized(cb)
    /\ batches # <<>>
    /\ Allowed(cb, {"batch"})
    /\ stage' = Moved(cb, "begun")
    /\ UNCHANGED <<cfg, arrived, cleared, run, best_score_, y_trues_, y_preds_,
                   y_is_placeholder_, history>>
    /\ IF batch_skipped(c, training)
       THEN /\ ev' = call(NoError)
            /\ scored' = None
            /\ UNCHANGED <<batches, netDict>>
       ELSE /\ ev' = call(raised)
            /\ netDict' = guard_exit(entered, c.use_caching, raised)
            /\ IF tx_raises
               THEN /\ scored' = None
                    /\ UNCHANGED batches
               ELSE /\ scored' = Scored(Some(target_extractor(y)), y_preds,
                                        entered, sc, r)
                    /\ batches' = IF tried = NoError
                                  THEN record_batch(batches, name_(cb),
                                                    r.score)
                                  ELSE batches

\* a * b and a + b on rationals
RatMul(a, b) == Rat(a[1] * b[1], a[2] * b[2])
RatAdd(a, b) == Rat(a[1] * b[2] + b[1] * a[2], a[2] * b[2])

RECURSIVE WeightedSum(_, _, _)
WeightedSum(rows, wkey, skey) ==
    IF rows = <<>> THEN <<0, 1>>
    ELSE RatAdd(RatMul(<<Head(rows)[wkey], 1>>, Head(rows)[skey]),
                WeightedSum(Tail(rows), wkey, skey))

RECURSIVE SumOf(_, _)
SumOf(rows, wkey) ==
    IF rows = <<>> THEN 0 ELSE Head(rows)[wkey] + SumOf(Tail(rows), wkey)

\* Mutant: the plain mean, the weights are ignored.
average_unweighted(rows, wkey, skey) ==
    LET num == WeightedSum([i \in 1..Len(rows) |->
                               [rows[i] EXCEPT ![wkey] = 1]], wkey, skey)
    IN Rat(num[1], num[2] * Len(rows))

\* np.average(scores, weights=weights) over the given rows
average(rows, wkey, skey) ==
    LET num == WeightedSum(rows, wkey, skey)
        den == SumOf(rows, wkey)
    IN Rat(num[1], num[2] * den)

\* BatchScoring.get_avg_score; a KeyError when no row carries both keys
get_avg_score(c, name, bs) ==
    LET key == bs_key(c.on_train)
        rows == batch_rows(bs, {key, name})
    IN IF rows = <<>> THEN [raised |-> "KeyError", score |-> <<0, 1>>]
       ELSE [raised |-> NoError, score |-> average(rows, key, name)]

\* Mutant: the averaging is attempted whatever the rows hold.
nothing_to_aggregate_never(bs, name) == FALSE

\* lines 171-174: history[-1, 'batches', :, self.name_] raises KeyError
nothing_to_aggregate(bs, name) == batch_rows(bs, {name}) = <<>>

BatchOnEpochEnd(cb) ==
    LET c == cfg[cb]
        avg == get_avg_score(c, name_(cb), batches)
        is_best == is_best_score(c, best_score_[cb].v, avg.score)
        h1 == record(history, name_(cb), avg.score)
        call(raised) == Event("on_epoch_end", cb, NoArgs, raised, 0)
    IN
    /\ ev = Idle
    /\ IsBatchScoring(cb) /\ initialized(cb)
    /\ history # <<>>
    /\ Allowed(cb, {"begun"})
    /\ stage' = Moved(cb, "ended")
    /\ scored' = None
    /\ UNCHANGED <<cfg, arrived, cleared, run, y_trues_, y_preds_,
                   y_is_placeholder_, batches, netDict>>
    /\ IF nothing_to_aggregate(batches, name_(cb))
       THEN /\ ev' = call(NoError)
            /\ UNCHANGED <<best_score_, history>>
       ELSE IF avg.raised # NoError
       THEN /\ ev' = call(avg.raised)
            /\ UNCHANGED <<best_score_, history>>
       ELSE /\ ev' = call(NoError)
            /\ best_score_' = IF is_best # None /\ is_best.v
                              THEN [best_score_ EXCEPT ![cb] = Some(avg.score)]
                              ELSE best_score_
            /\ history' = IF is_best # None
                          THEN record(h1, best_key(cb), is_best.v)
                          ELSE h1

(***************************************************************************)
(* Configurations and specifications.                                      *)
(***************************************************************************)
Policies ==
    [lower_is_better : {None, Some(TRUE), Some(FALSE)},
     on_train : BOOLEAN,
     use_caching : BOOLEAN]

Config(kind, scoring_arg, name, p) ==
    [kind |-> kind, scoring |-> scoring_arg, name |-> name,
     lower_is_better |-> p.lower_is_better, on_train |-> p.on_train,
     use_caching |-> p.use_caching]

\* The callbacks that can be attached: their class, scoring and name.
Attachable ==
    [b |-> [kind |-> "BatchScoring", scoring |-> Some("accuracy"),
            name |-> None],
     e1 |-> [kind |-> "EpochScoring", scoring |-> None, name |-> None],
     e2 |-> [kind |-> "EpochScoring", scoring |-> Some("f1"),
             name |-> Some("my_score")]]

ConfigsOf(ids, policies) ==
    {[cb \in ids |-> Config(Attachable[cb].kind, Attachable[cb].scoring,
                            Attachable[cb].name, pol[cb])] :
        pol \in [ids -> policies]}

Shape(epochs, nbatches, ordered) ==
    [max_epochs |-> epochs, max_batches |-> nbatches, ordered |-> ordered]

HasBatchScoring(c) == \E cb \in DOMAIN c : c[cb].kind = "BatchScoring"

InitWith(configs) ==
    /\ cfg \in configs
    /\ stage = [cb \in DOMAIN cfg |-> "init"]
    /\ best_score_ = [cb \in DOMAIN cfg |-> None]
    /\ y_trues_ = [cb \in DOMAIN cfg |-> <<>>]
    /\ y_preds_ = [cb \in DOMAIN cfg |-> <<>>]
    /\ y_is_placeholder_ = [cb \in DOMAIN cfg |-> None]
    /\ history = <<>>
    /\ batches = <<>>
    /\ netDict = {}
    /\ ev = Idle
    /\ scored = None
    /\ arrived = [cb \in DOMAIN cfg |-> <<>>]
    /\ cleared = [cb \in DOMAIN cfg |-> FALSE]

\* The dataset of the other phase, which a handler receives and ignores.
OtherDatasets == {DsXY}

Datasets2(cb) ==
    {IF cfg[cb].on_train THEN [train |-> ds, valid |-> o]
     ELSE [train |-> o, valid |-> ds] :
        ds \in Datasets, o \in OtherDatasets}

Next ==
    \/ Return
    \/ NewEpoch
    \/ \E training \in BOOLEAN, size \in Sizes : NewBatch(training, size)
    \/ \E cb \in Cbs : Initialize(cb)
    \/ \E cb \in Cbs : \E d \in Datasets2(cb) :
          EpochOnEpochBegin(cb, d.train, d.valid)
    \/ \E cb \in Cbs, b \in Batches, training \in BOOLEAN :
          EpochOnBatchEnd(cb, b.y, b.y_pred, training)
    \/ \E cb \in Cbs : \E d \in Datasets2(cb), env \in Environments :
          EpochOnEpochEnd(cb, d.train, d.valid, env.sc, env.tx_raises)
    \/ \E cb \in Cbs : EpochOnTrainEnd(cb)
    \/ \E cb \in Cbs, b \in Batches, training \in BOOLEAN,
          env \in Environments :
          BatchOnBatchEnd(cb, b.y, b.y_pred, training, env.sc, env.tx_raises,
                          env.rec)
    \/ \E cb \in Cbs : BatchOnEpochEnd(cb)

\* Spec: one callback attached to the net, of either class, under any
\* policy; the handlers are called in any order.  A run has many epochs of
\* one batch or one epoch of many batches; both at once when no batch rows
\* are kept.
FreeShapes(c) ==
    IF HasBatchScoring(c)
    THEN {Shape(MaxEpochs, 1, FALSE), Shape(1, MaxBatches, FALSE)}
    ELSE {Shape(MaxEpochs, MaxBatches, FALSE)}

Init ==
    /\ InitWith(ConfigsOf({"b"}, Policies) \cup ConfigsOf({"e1"}, Policies))
    /\ run \in FreeShapes(cfg)

Spec == Init /\ [][Next]_vars

\* SpecLoop: one callback attached; the loop delivers the events in the
\* order of the lifecycle: per epoch one on_epoch_begin, then the
\* on_batch_end calls, then one on_epoch_end.
LongRun == 4

LoopShapes(c) ==
    IF HasBatchScoring(c)
    THEN {Shape(LongRun, 1, TRUE), Shape(1, MaxBatches, TRUE)}
    ELSE {Shape(LongRun, 1, TRUE), Shape(MaxEpochs, MaxBatches, TRUE)}

InitLoop ==
    /\ InitWith(ConfigsOf({"b"}, Policies) \cup ConfigsOf({"e1"}, Policies))
    /\ run \in LoopShapes(cfg)

SpecLoop == InitLoop /\ [][Next]_vars

\* SpecPair: two callbacks attached to the same net and history, two
\* EpochScoring instances or one of each class, their handlers called in
\* any order within one epoch.
PairPolicies ==
    [lower_is_better : {Some(TRUE)}, on_train : {TRUE},
     use_caching : {TRUE}]

PairShapes(c) == {Shape(1, 1, FALSE)}

InitPair ==
    /\ InitWith(ConfigsOf({"e1", "e2"}, PairPolicies)
                    \cup ConfigsOf({"b", "e1"}, PairPolicies))
    /\ run \in PairShapes(cfg)

SpecPair == InitPair /\ [][Next]_vars

\* SpecPairLoop: the handlers are called in lifecycle order; a BatchScoring
\* and an EpochScoring callback share the net and its history over several
\* epochs of one batch, or a BatchScoring callback runs one epoch of several
\* batches.
PairLoopShapes(c) ==
    IF "e1" \in DOMAIN c
    THEN {Shape(MaxEpochs, 1, TRUE)}
    ELSE {Shape(1, MaxBatches, TRUE)}

InitPairLoop ==
    /\ InitWith(ConfigsOf({"b", "e1"}, PairPolicies)
                    \cup ConfigsOf({"b"}, PairPolicies))
    /\ run \in PairLoopShapes(cfg)

SpecPairLoop == InitPairLoop /\ [][Next]_vars

\* SpecAvg: BatchScoring.on_epoch_end applied to the batch rows of one
\* epoch, drawn from the sizes and scores of the documented example.
AvgRows == 3
AvgSizes == {2, 3, 5}
AvgScores == {<<1, 10>>, <<1, 5>>, <<3, 10>>}

AvgRowSet(name) ==
    LET sized == {DictSet(EmptyDict, bs_key(t), n) :
                     t \in BOOLEAN, n \in AvgSizes}
    IN sized \cup {DictSet(row, name, x) : row \in sized, x \in AvgScores}

AvgPolicies ==
    [lower_is_better : {Some(TRUE)}, on_train : BOOLEAN,
     use_caching : {TRUE}]

InitAvg ==
    /\ cfg \in ConfigsOf({"b"}, AvgPolicies)
    /\ run = Shape(1, AvgRows, FALSE)
    /\ stage = [cb \in DOMAIN cfg |-> "init"]
    /\ best_score_ = [cb \in DOMAIN cfg |-> Some(initial_best(cfg[cb]))]
    /\ y_trues_ = [cb \in DOMAIN cfg |-> <<>>]
    /\ y_preds_ = [cb \in DOMAIN cfg |-> <<>>]
    /\ y_is_placeholder_ = [cb \in DOMAIN cfg |-> None]
    /\ history = new_epoch(<<>>)
    /\ batches \in SeqsUpTo(AvgRowSet(get_name(cfg["b"])), AvgRows)
    /\ netDict = {}
    /\ ev = Idle
    /\ scored = None
    /\ arrived = [cb \in DOMAIN cfg |-> <<>>]
    /\ cleared = [cb \in DOMAIN cfg |-> FALSE]

NextAvg ==
    \/ Return
    \/ \E cb \in Cbs : BatchOnEpochEnd(cb)

SpecAvg == InitAvg /\ [][NextAvg]_vars

(***************************************************************************)
(* Claims.                                                                 *)
(***************************************************************************)

\* C1 (cache transparency): when a scorer invokes net.infer exactly N times
\* inside a guarded scope that was entered with use_caching=True and a
\* replay sequence of N predictions, the invocations return exactly these N
\* predictions in their order, whatever the arguments; and once the scope
\* has been left normally, net.__dict__ holds no 'infer' any more, so that
\* net.infer is the bound method again.
C1_CacheTransparency ==
    (/\ scored # None
     /\ scored.v.overridden
     /\ scored.v.calls = Len(scored.v.y_pred))
    => /\ scored.v.seen = scored.v.y_pred
       /\ (ev.raised = NoError => "infer" \notin netDict)

C1_Witness ==
    /\ scored # None
    /\ scored.v.overridden
    /\ scored.v.calls = 2
    /\ scored.v.y_pred = <<"p1", "p2">>
    /\ scored.v.seen = <<"p1", "p2">>
    /\ ev.raised = NoError
    /\ "infer" \notin netDict

\* C2 (guard restoration is unconditional): in every state between two
\* lifecycle calls, also after a call that returned early from inside the
\* guarded scope or that raised, net.__dict__ holds no 'infer'.
C2_GuardRestored == "infer" \notin netDict

C2_Witness ==
    /\ ev.op \in {"on_batch_end", "on_epoch_end"}
    /\ ev.raised \in {"StopIteration", "ValueError"}
    /\ cfg[ev.cb].use_caching
    /\ scored # None /\ scored.v.overridden
    /\ "infer" \notin netDict

\* The batch rows np.average is taken over, and the integer sums of the
\* cross-multiplied equation.
C3Rows(cb) ==
    LET key == IF cfg[cb].on_train THEN "train_batch_size"
               ELSE "valid_batch_size"
    IN SelectSeq(batches,
                 LAMBDA row : name_(cb) \in DOMAIN row /\ key \in DOMAIN row)

RECURSIVE C3Den(_, _)
C3Den(rows, name) ==
    IF rows = <<>> THEN 1 ELSE Head(rows)[name][2] * C3Den(Tail(rows), name)

RECURSIVE C3Num(_, _, _, _)
C3Num(rows, key, name, D) ==
    IF rows = <<>> THEN 0
    ELSE Head(rows)[key] * Head(rows)[name][1] * (D \div Head(rows)[name][2])
         + C3Num(Tail(rows), key, name, D)

RECURSIVE C3Weight(_, _)
C3Weight(rows, key) ==
    IF rows = <<>> THEN 0 ELSE Head(rows)[key] + C3Weight(Tail(rows), key)

\* C3 (weighted average): the epoch-level score BatchScoring.on_epoch_end
\* records under its name is sum(size_i * score_i) / sum(size_i) over exactly
\* the batch rows of the current epoch that carry both a score under that
\* name and the batch-size key of the phase (train_batch_size when on_train,
\* else valid_batch_size).  The equation is checked cross-multiplied, with
\* the scores n_i/d_i brought to the common denominator D.
C3_WeightedAverage ==
    (/\ ev.op = "on_epoch_end"
     /\ IsBatchScoring(ev.cb)
     /\ ev.raised = NoError
     /\ C3Rows(ev.cb) # <<>>)
    => LET cb == ev.cb
           key == IF cfg[cb].on_train THEN "train_batch_size"
                  ELSE "valid_batch_size"
           rows == C3Rows(cb)
           D == C3Den(rows, name_(cb))
           last == history[Len(history)]
       IN /\ name_(cb) \in DOMAIN last
          /\ last[name_(cb)][2] > 0
          /\ last[name_(cb)][1] * C3Weight(rows, key) * D
                = last[name_(cb)][2] * C3Num(rows, key, name_(cb), D)

\* sizes [2, 3, 5] and scores [0.1, 0.2, 0.3] give 0.23
C3_Witness ==
    /\ ev.op = "on_epoch_end"
    /\ IsBatchScoring(ev.cb)
    /\ ev.raised = NoError
    /\ Len(batches) = 3
    /\ LET key == bs_key(cfg[ev.cb].on_train)
           name == name_(ev.cb)
       IN /\ \A i \in 1..3 : {key, name} \subseteq DOMAIN batches[i]
          /\ <<batches[1][key], batches[2][key], batches[3][key]>>
                = <<2, 3, 5>>
          /\ <<batches[1][name], batches[2][name], batches[3][name]>>
                = <<<<1, 10>>, <<1, 5>>, <<3, 10>>>>
          /\ history[Len(history)][name] = <<23, 100>>

\* The epochs that carry a score of the callback.
C4Scored(cb) == {i \in 1..Len(history) : name_(cb) \in DOMAIN history[i]}

\* C4 (best-score monotonicity): for a callback of either class with
\* lower_is_better=True, in a run that scores each epoch once, the flag
\* recorded under '<name>_best' for an epoch is TRUE exactly when the score
\* of that epoch is strictly lower than the score of every earlier epoch,
\* and best_score_ is the minimum of the scores recorded so far (np.inf
\* when there is none).
C4_BestScoreMonotone ==
    \A cb \in Cbs :
        (initialized(cb) /\ cfg[cb].lower_is_better = Some(TRUE))
        => LET sc(i) == history[i][name_(cb)]
               best == best_score_[cb].v
           IN /\ \A i \in C4Scored(cb) :
                    /\ best_key(cb) \in DOMAIN history[i]
                    /\ history[i][best_key(cb)]
                          = (\A j \in C4Scored(cb) :
                                j < i =>
                                   sc(i)[1] * sc(j)[2] < sc(j)[1] * sc(i)[2])
              /\ IF C4Scored(cb) = {} THEN best = <<1, 0>>
                 ELSE /\ \E i \in C4Scored(cb) : best = sc(i)
                      /\ \A i \in C4Scored(cb) :
                            best[1] * sc(i)[2] <= sc(i)[1] * best[2]

\* the scores high, low, high, low give the flags TRUE, TRUE, FALSE, FALSE
\* and a running best of low
C4_Witness ==
    \E cb \in Cbs :
        /\ initialized(cb) /\ cfg[cb].lower_is_better = Some(TRUE)
        /\ Len(history) = 4
        /\ \A i \in 1..4 : {name_(cb), best_key(cb)} \subseteq DOMAIN history[i]
        /\ [i \in 1..4 |-> history[i][name_(cb)]]
              = <<<<2, 1>>, <<1, 1>>, <<2, 1>>, <<1, 1>>>>
        /\ [i \in 1..4 |-> history[i][best_key(cb)]]
              = <<TRUE, TRUE, FALSE, FALSE>>
        /\ best_score_[cb] = Some(<<1, 1>>)

\* C5 (disabled comparison): for a callback of either class with
\* lower_is_better=None, whatever the calls and the scores, no epoch of the
\* history carries '<name>_best', best_score_ keeps the value initialize()
\* gave it (-np.inf), and an on_epoch_end that scored without error has
\* recorded the epoch-level score under '<name>'.
C5_DisabledComparison ==
    \A cb \in Cbs :
        cfg[cb].lower_is_better = None
        => /\ \A i \in 1..Len(history) : best_key(cb) \notin DOMAIN history[i]
           /\ initialized(cb) => best_score_[cb] = Some(<<-1, 0>>)
           /\ (/\ ev.op = "on_epoch_end" /\ ev.cb = cb /\ ev.raised = NoError
               /\ \/ IsEpochScoring(cb) /\ scored # None
                  \/ /\ IsBatchScoring(cb)
                     /\ \E i \in 1..Len(batches) :
                           name_(cb) \in DOMAIN batches[i])
              => name_(cb) \in DOMAIN history[Len(history)]

C5_Witness ==
    /\ ev.op = "on_epoch_end"
    /\ ev.raised = NoError
    /\ cfg[ev.cb].lower_is_better = None
    /\ name_(ev.cb) \in DOMAIN history[Len(history)]
    /\ best_key(ev.cb) \notin DOMAIN history[Len(history)]
    /\ best_score_[ev.cb] = Some(<<-1, 0>>)

\* A dataset that declares no targets, and the dataset of the phase among
\* the arguments of a call.
C6NoTargets(ds) == ds # None /\ ds.skorch /\ ds.y = None

C6PhaseDataset(cb, args) ==
    IF cfg[cb].on_train THEN args.dataset_train ELSE args.dataset_valid

\* C6 (placeholder targets): on_epoch_begin sets y_is_placeholder_ exactly
\* when the dataset of the callback's phase is a Dataset whose y is None;
\* while the flag is set, y_trues_ stays empty whatever batches arrive (only
\* y_preds_ grows); and the scorer then gets y_test = None at on_epoch_end
\* (on the non-caching path: when on_epoch_end is handed that dataset too).
C6_PlaceholderTargets ==
    /\ \A cb \in Cbs :
          y_is_placeholder_[cb] = Some(TRUE) => y_trues_[cb] = <<>>
    /\ ev.op = "on_epoch_begin"
       => y_is_placeholder_[ev.cb]
             = Some(C6NoTargets(C6PhaseDataset(ev.cb, ev.args)))
    /\ (/\ ev.op = "on_epoch_end"
        /\ IsEpochScoring(ev.cb)
        /\ scored # None
        /\ y_is_placeholder_[ev.cb] = Some(TRUE)
        /\ \/ cfg[ev.cb].use_caching
           \/ C6NoTargets(C6PhaseDataset(ev.cb, ev.args)))
       => scored.v.y_test = None

C6_Witness ==
    /\ ev.op = "on_epoch_end"
    /\ IsEpochScoring(ev.cb)
    /\ cfg[ev.cb].use_caching
    /\ y_is_placeholder_[ev.cb] = Some(TRUE)
    /\ Len(y_preds_[ev.cb]) = 2
    /\ y_trues_[ev.cb] = <<>>
    /\ scored # None
    /\ scored.v.y_test = None

\* C7 (cache reset): right after EpochScoring.on_epoch_begin and right after
\* EpochScoring.on_train_end both cache lists of the callback are empty,
\* however many entries it had cached before.
C7_CacheReset ==
    ev.op \in {"on_epoch_begin", "on_train_end"}
    => y_trues_[ev.cb] = <<>> /\ y_preds_[ev.cb] = <<>>

C7_Witness ==
    /\ ev.op = "on_train_end"
    /\ ev.cached = 2
    /\ y_trues_[ev.cb] = <<>>
    /\ y_preds_[ev.cb] = <<>>

\* C8 (no-op on phase mismatch): an on_batch_end whose training flag differs
\* from the callback's on_train changes neither the caches, nor the running
\* bests, nor the history, its scorer is not invoked, net.__dict__ stays as
\* it was and nothing is raised; for both classes.
C8_PhaseMismatchNoOp ==
    [][(ev'.op = "on_batch_end"
        /\ ev'.args.training # cfg[ev'.cb].on_train)
       => /\ UNCHANGED <<y_trues_, y_preds_, y_is_placeholder_, best_score_,
                         history, batches, netDict>>
          /\ scored' = None
          /\ ev'.raised = NoError]_vars

C8_Witness ==
    /\ ev.op = "on_batch_end"
    /\ ev.args.training # cfg[ev.cb].on_train
    /\ IsEpochScoring(ev.cb)
    /\ cfg[ev.cb].use_caching
    /\ Len(y_preds_[ev.cb]) = 1

C10_ReplayExhaustion ==
    [][/\ (scored' # None /\ scored'.v.overridden)
          => IF scored'.v.calls > Len(scored'.v.y_pred)
             THEN /\ ev'.raised = "StopIteration"
                  /\ scored'.v.seen = scored'.v.y_pred
             ELSE /\ ev'.raised # "StopIteration"
                  /\ scored'.v.seen
                        = SubSeq(scored'.v.y_pred, 1, scored'.v.calls)
       /\ ev'.raised = "StopIteration"
          => UNCHANGED <<history, batches, best_score_>>]_vars

C10_Witness ==
    /\ ev.op = "on_epoch_end"
    /\ IsEpochScoring(ev.cb)
    /\ ev.raised = "StopIteration"
    /\ scored # None
    /\ scored.v.overridden
    /\ Len(scored.v.y_pred) = 2
    /\ scored.v.calls = 3
    /\ scored.v.seen = scored.v.y_pred
    /\ name_(ev.cb) \notin DOMAIN history[Len(history)]

\* C11 (guard disabled): with use_caching=False the guard hands back the
\* net as it is: entering and leaving change net.__dict__ in no case,
\* whether or not it holds an 'infer' entry; so a handler call of a callback
\* with use_caching=False never changes net.__dict__, its scorer never runs
\* with the override installed, every net.infer call of the scorer is real
\* inference (no prediction of the sequence is handed out), and no
\* StopIteration is raised.
C11_GuardDisabled ==
    [][/\ \A d \in SUBSET {"infer"} :
             /\ guard_enter(d, FALSE) = d
             /\ \A e \in {NoError, "ValueError"} : guard_exit(d, FALSE, e) = d
       /\ (ev'.cb \in Cbs /\ ~cfg[ev'.cb].use_caching)
          => /\ netDict' = netDict
             /\ ev'.raised # "StopIteration"
             /\ scored' # None
                => /\ ~scored'.v.overridden
                   /\ scored'.v.seen
                         = [i \in 1..scored'.v.calls |-> RealInference]]_vars

C11_Witness ==
    /\ ev.op \in {"on_batch_end", "on_epoch_end"}
    /\ ~cfg[ev.cb].use_caching
    /\ scored # None
    /\ ~scored.v.overridden
    /\ scored.v.calls = 2
    /\ scored.v.seen = <<RealInference, RealInference>>
    /\ "infer" \notin netDict

\* The predictions, and the targets as the scorer gets them, of the batches
\* a callback has received in the current epoch.
C12Preds(cb) == [i \in 1..Len(arrived[cb]) |-> arrived[cb][i].y_pred]

C12Targets(cb) ==
    IF arrived[cb] = <<>> THEN None
    ELSE Some(concatenate([i \in 1..Len(arrived[cb]) |->
                              target_extractor(arrived[cb][i].y)]))

\* C12 (epoch replay content and order): in a lifecycle-ordered run, when
\* EpochScoring.on_epoch_end of a callback with use_caching=True scores, the
\* replay sequence of the guard is exactly the y_pred of the on_batch_end
\* calls of the callback's phase received since the epoch's on_epoch_begin,
\* one per batch in arrival order (nothing of an earlier epoch or of the
\* other phase); unless the targets are a placeholder, y_test is the
\* concatenation of those batches' extracted targets in the same order; and
\* the scorer runs in on_epoch_end only, once, whenever X is present and
\* target extraction did not fail.
C12_EpochReplay ==
    /\ (ev.op = "on_epoch_end" /\ IsEpochScoring(ev.cb)
        /\ cfg[ev.cb].use_caching /\ scored # None)
       => /\ scored.v.y_pred = C12Preds(ev.cb)
          /\ y_is_placeholder_[ev.cb] = Some(FALSE)
             => scored.v.y_test = C12Targets(ev.cb)
    /\ (ev.cb \in Cbs /\ IsEpochScoring(ev.cb) /\ cfg[ev.cb].use_caching)
       => (scored # None
           <=> /\ ev.op = "on_epoch_end"
               /\ ev.raised # "ExtractError"
               /\ (IF cfg[ev.cb].on_train THEN ev.args.dataset_train
                   ELSE ev.args.dataset_valid) # None)

\* second epoch, two batches of the phase after one of the first epoch
C12_Witness ==
    /\ ev.op = "on_epoch_end"
    /\ IsEpochScoring(ev.cb)
    /\ cfg[ev.cb].use_caching
    /\ Len(history) = 2
    /\ scored # None
    /\ scored.v.y_pred = <<"p2", "p1">>
    /\ scored.v.y_test = Some([np |-> <<"b", "c", "a">>])

\* An on_epoch_end call of cb has just recorded an epoch-level score.
C13Recorded(cb) ==
    /\ ev'.op = "on_epoch_end" /\ ev'.cb = cb /\ ev'.raised = NoError
    /\ \/ IsEpochScoring(cb) /\ scored' # None
       \/ /\ IsBatchScoring(cb)
          /\ \E i \in 1..Len(batches) : name_(cb) \in DOMAIN batches[i]

\* s is strictly better than b for the callback's lower_is_better.
C13Better(cb, s, b) ==
    /\ cfg[cb].lower_is_better # None
    /\ IF cfg[cb].lower_is_better.v THEN s[1] * b[2] < b[1] * s[2]
       ELSE b[1] * s[2] < s[1] * b[2]

\* C13 (running best changes only on strict improvement): best_score_ is
\* first set by initialize(), to +inf when lower_is_better is true and to
\* -inf otherwise; afterwards a step changes it only if it is an
\* on_epoch_end of that callback whose score is strictly better than the
\* current best (lower when lower_is_better is true, higher when it is
\* false), and then it becomes that score; an on_epoch_end with an equal or
\* worse score, and every other call, leaves it as it is.
C13_BestOnlyOnImprovement ==
    [][\A cb \in Cbs :
          LET s == history'[Len(history')][name_(cb)] IN
          /\ ~initialized(cb)
             => \/ best_score_'[cb] = None
                \/ /\ ev'.op = "initialize" /\ ev'.cb = cb
                   /\ best_score_'[cb]
                         = Some(IF cfg[cb].lower_is_better = Some(TRUE)
                                THEN <<1, 0>> ELSE <<-1, 0>>)
          /\ (initialized(cb) /\ best_score_'[cb] # best_score_[cb])
             => /\ C13Recorded(cb)
                /\ C13Better(cb, s, best_score_[cb].v)
                /\ best_score_'[cb] = Some(s)
          /\ (initialized(cb) /\ C13Recorded(cb)
              /\ C13Better(cb, s, best_score_[cb].v))
             => best_score_'[cb] = Some(s)]_vars

\* a second epoch with the same score as the first: not an improvement
C13_Witness ==
    /\ ev.op = "on_epoch_end"
    /\ ev.raised = NoError
    /\ cfg[ev.cb].lower_is_better = Some(FALSE)
    /\ Len(history) = 2
    /\ name_(ev.cb) \in DOMAIN history[1]
    /\ name_(ev.cb) \in DOMAIN history[2]
    /\ history[1][name_(ev.cb)] = <<2, 1>>
    /\ history[2][name_(ev.cb)] = <<2, 1>>
    /\ history[2][best_key(ev.cb)] = FALSE
    /\ best_score_[ev.cb] = Some(<<2, 1>>)

\* C14 (nothing to aggregate): a BatchScoring.on_epoch_end that finds no
\* batch row of the current epoch with a score under the callback's name
\* (no batch at all, or every batch skipped) returns without an error and
\* records nothing: the history, best_score_ and net.__dict__ are as before,
\* so neither '<name>' nor '<name>_best' appears for the epoch by this call.
C14_NothingToAggregate ==
    [][(/\ ev'.op = "on_epoch_end"
        /\ IsBatchScoring(ev'.cb)
        /\ \A i \in 1..Len(batches) : name_(ev'.cb) \notin DOMAIN batches[i])
       => /\ ev'.raised = NoError
          /\ UNCHANGED <<history, batches, best_score_, netDict>>]_vars

C14_Witness ==
    /\ ev.op = "on_epoch_end"
    /\ IsBatchScoring(ev.cb)
    /\ ev.raised = NoError
    /\ Len(batches) = 2
    /\ \A i \in 1..Len(batches) : name_(ev.cb) \notin DOMAIN batches[i]
    /\ name_(ev.cb) \notin DOMAIN history[Len(history)]
    /\ best_key(ev.cb) \notin DOMAIN history[Len(history)]
    /\ best_score_[ev.cb] = Some(initial_best(cfg[ev.cb]))

\* C15 (narrow catch at batch end), as claimed: in BatchScoring.on_batch_end
\* of the callback's phase, an error raised by the scoring call itself
\* always reaches the caller; only a KeyError raised by
\* history.record_batch is swallowed, and then nothing is recorded.
C15_NarrowCatch ==
    [][(ev'.op = "on_batch_end" /\ IsBatchScoring(ev'.cb) /\ scored' # None)
       => /\ scored'.v.error # NoError => ev'.raised = scored'.v.error
          /\ (scored'.v.error = NoError
              /\ ev'.args.record_raises = "KeyError")
             => ev'.raised = NoError /\ batches' = batches]_vars

\* The X that EpochScoring.on_epoch_end resolves from the dataset of the
\* callback's phase is None.
C16Absent(cb, args) ==
    LET ds == IF cfg[cb].on_train THEN args.dataset_train
              ELSE args.dataset_valid
    IN IF cfg[cb].use_caching THEN ds = None
       ELSE ds = None \/ (ds.skorch /\ ds.X = None)

\* C16 (absent X at epoch end): an EpochScoring.on_epoch_end whose resolved
\* X is None (caching path: the phase's dataset is None; non-caching path:
\* the dataset yields X=None) does not invoke the scorer, does not enter
\* the guard (net.__dict__ untouched), writes nothing to the history and
\* leaves best_score_ and the cache as they are; no error leaves the call
\* other than one raised by target_extractor before X is looked at.
C16_AbsentX ==
    [][(/\ ev'.op = "on_epoch_end"
        /\ IsEpochScoring(ev'.cb)
        /\ C16Absent(ev'.cb, ev'.args))
       => /\ scored' = None
          /\ UNCHANGED <<netDict, history, best_score_, y_trues_, y_preds_>>
          /\ ev'.raised \in {NoError, "ExtractError"}]_vars

C16_Witness ==
    /\ ev.op = "on_epoch_end"
    /\ IsEpochScoring(ev.cb)
    /\ cfg[ev.cb].use_caching
    /\ C16Absent(ev.cb, ev.args)
    /\ ev.cached = 2
    /\ ev.raised = NoError
    /\ scored = None
    /\ history[Len(history)] = EmptyDict

\* The keys a step added to the dict of the current epoch, and to batch row
\* i of the current epoch.
C17EpochAdded == DOMAIN history'[Len(history')] \ DOMAIN history[Len(history)]

C17BatchAdded(i) == DOMAIN batches'[i] \ DOMAIN batches[i]

C18Dataset(cb, args) ==
    IF cfg[cb].on_train THEN args.dataset_train ELSE args.dataset_valid

\* C18 (non-caching path): an EpochScoring callback with use_caching=False
\* caches nothing: after initialize() both lists are empty in every state,
\* whatever batches arrive.  When its on_epoch_end scores, X and y come from
\* the dataset of the phase: y_test is the extracted y of a Dataset that has
\* one and None otherwise, target_extractor is applied (and can fail) only
\* when y is not None, the scorer runs exactly when the resolved X is not
\* None, and it runs without the replay override: all its net.infer calls
\* are real inference.
C18_NonCachingPath ==
    /\ \A cb \in Cbs :
          (IsEpochScoring(cb) /\ ~cfg[cb].use_caching /\ initialized(cb))
          => y_trues_[cb] = <<>> /\ y_preds_[cb] = <<>>
    /\ (ev.op = "on_epoch_end" /\ IsEpochScoring(ev.cb)
        /\ ~cfg[ev.cb].use_caching)
       => LET ds == C18Dataset(ev.cb, ev.args)
              sk == ds # None /\ ds.skorch
              has_y == sk /\ ds.y # None
              X == IF sk THEN ds.X ELSE ds
          IN /\ ev.raised = "ExtractError" => has_y
             /\ scored # None <=> (X # None /\ ev.raised # "ExtractError")
             /\ scored # None
                => /\ scored.v.y_test
                         = (IF has_y THEN Some([np |-> ds.y.v]) ELSE None)
                   /\ scored.v.y_pred = <<>>
                   /\ ~scored.v.overridden
                   /\ "infer" \notin netDict
                   /\ scored.v.seen
                         = [i \in 1..scored.v.calls |-> RealInference]

C18_Witness ==
    /\ ev.op = "on_epoch_end"
    /\ IsEpochScoring(ev.cb)
    /\ ~cfg[ev.cb].use_caching
    /\ C18Dataset(ev.cb, ev.args) = DsXY
    /\ scored # None
    /\ scored.v.y_test = Some([np |-> <<"a", "b", "c">>])
    /\ scored.v.calls = 1
    /\ scored.v.seen = <<RealInference>>
    /\ y_preds_[ev.cb] = <<>>
    /\ y_is_placeholder_[ev.cb] = Some(FALSE)

\* The shape of the cache of an EpochScoring callback with use_caching=True:
\* as many targets as predictions, or none in a placeholder epoch.
C19Shape(cb) ==
    IF y_is_placeholder_[cb] = Some(TRUE) THEN y_trues_[cb] = <<>>
    ELSE Len(y_trues_[cb]) = Len(y_preds_[cb])

\* C19 (cache shape), as claimed: in every state of a lifecycle-ordered run,
\* the cache of an EpochScoring callback with use_caching=True has as many
\* targets as predictions (none in a placeholder epoch), and as many
\* predictions as on_batch_end calls of its phase were received since its
\* last on_epoch_begin.
C19_CacheShapeClaimed ==
    \A cb \in Cbs :
        (run.ordered /\ IsEpochScoring(cb) /\ cfg[cb].use_caching
         /\ initialized(cb))
        => /\ C19Shape(cb)
           /\ Len(y_preds_[cb]) = Len(arrived[cb])

\* C19 (cache shape), amended: the same, except that on_train_end empties
\* the cache: from on_train_end to the next on_epoch_begin both lists are
\* empty, whatever was received since the last on_epoch_begin.
C19_CacheShape ==
    \A cb \in Cbs :
        (run.ordered /\ IsEpochScoring(cb) /\ cfg[cb].use_caching
         /\ initialized(cb))
        => /\ C19Shape(cb)
           /\ IF cleared[cb]
              THEN y_preds_[cb] = <<>> /\ y_trues_[cb] = <<>>
              ELSE Len(y_preds_[cb]) = Len(arrived[cb])

C19_Witness ==
    \E cb \in Cbs :
        /\ run.ordered /\ IsEpochScoring(cb) /\ cfg[cb].use_caching
        /\ stage[cb] = "begun"
        /\ y_is_placeholder_[cb] = Some(FALSE)
        /\ Len(history) = 2
        /\ Len(arrived[cb]) = 2
        /\ Len(y_preds_[cb]) = 2
        /\ Len(y_trues_[cb]) = 2

\* C20 (state unchanged on error): when the scoring call of
\* EpochScoring.on_epoch_end raises (the scorer itself, or the exhausted
\* replay), that error leaves the handler, and the call has changed neither
\* the history (no '<name>', no '<name>_best'), nor best_score_, nor the
\* cache, and net.__dict__ holds no 'infer'; so in every state an epoch that
\* carries '<name>_best' of a callback also carries its '<name>'.
C20_NoTraceOnError ==
    [][/\ (/\ ev'.op = "on_epoch_end"
           /\ IsEpochScoring(ev'.cb)
           /\ scored' # None
           /\ scored'.v.error # NoError)
          => /\ ev'.raised = scored'.v.error
             /\ UNCHANGED <<history, best_score_, y_trues_, y_preds_,
                            y_is_placeholder_>>
             /\ "infer" \notin netDict'
       /\ \A cb \in Cbs : \A i \in 1..Len(history') :
             (name_(cb) \o "_best") \in DOMAIN history'[i]
             => name_(cb) \in DOMAIN history'[i]]_vars

C20_Witness ==
    /\ ev.op = "on_epoch_end"
    /\ IsEpochScoring(ev.cb)
    /\ cfg[ev.cb].use_caching
    /\ scored # None
    /\ scored.v.error = "ValueError"
    /\ ev.raised = "ValueError"
    /\ ev.cached = 2
    /\ Len(y_preds_[ev.cb]) = 2
    /\ history[Len(history)] = EmptyDict
    /\ best_score_[ev.cb] = Some(initial_best(cfg[ev.cb]))
    /\ "infer" \notin netDict

====
